---- MODULE Spec2Model ----
(***************************************************************************)
(* Model of streamlit_dashboard/first_app.py: the monuments dashboard.     *)
(* Every change of a sidebar radio button re-executes the script from the  *)
(* top: the two files are read again, the derived column                   *)
(* 'aantal_monumenten_binnen_categorie' is computed, and the scale for the *)
(* choropleth is built.                                                    *)
(*                                                                         *)
(* Numbers.  pandas/numpy compute in IEEE-754 binary64.  A number is       *)
(* modelled as a record [k, m, e]:                                         *)
(*    k = "fin": the value  SUM_i m[i] * 2^(e - i + 1), with m a sequence  *)
(*               of bits, first and last bit 1 (<<>> is zero);             *)
(*    k = "inf": +infinity;   k = "nan": not-a-number.                     *)
(* The representation is canonical, so equality of records is equality of  *)
(* values.  A binary64 value has at most Precision significant bits.  All  *)
(* values of the program are non-negative and far from the exponent        *)
(* limits, so sign, subnormals and overflow are not modelled.              *)
(***************************************************************************)
EXTENDS Integers, Sequences, FiniteSets, TLC

\* binary64 significand width (numpy float64, the dtype of lines 44 and 47)
Precision == 53

\* width of the limbs the bit arithmetic below works in: five limbs hold a
\* significand and its rounding bit
LimbBits == (Precision + 2) \div 5

Zero == [k |-> "fin", m |-> <<>>, e |-> 0]
Inf == [k |-> "inf", m |-> <<>>, e |-> 0]
NaN == [k |-> "nan", m |-> <<>>, e |-> 0]

IsFinite(x) == x.k = "fin"

Zeros(n) == [i \in 1..n |-> 0]

Ones(b) == {i \in 1..Len(b) : b[i] = 1}

MaxOf(S) == CHOOSE i \in S : \A j \in S : j <= i

MinOf(S) == CHOOSE i \in S : \A j \in S : i <= j

\* the finite number with bits b, the first of weight 2^e
Norm(b, e) ==
    IF Ones(b) = {} THEN Zero
    ELSE [k |-> "fin",
          m |-> SubSeq(b, MinOf(Ones(b)), MaxOf(Ones(b))),
          e |-> e - (MinOf(Ones(b)) - 1)]

RECURSIVE BitsOfNat(_)
BitsOfNat(n) == IF n = 0 THEN <<>> ELSE Append(BitsOfNat(n \div 2), n % 2)

\* the w low bits of n, most significant first
BitsFixed(n, w) == [i \in 1..w |-> (n \div 2^(w - i)) % 2]

RECURSIVE NatOfBits(_)
NatOfBits(b) ==
    IF b = <<>> THEN 0 ELSE 2 * NatOfBits(SubSeq(b, 1, Len(b) - 1)) + b[Len(b)]

\* bit sequence <-> limbs of LimbBits bits, least significant limb first
NumLimbs(b) == (Len(b) + LimbBits - 1) \div LimbBits

Limb(b, i) ==
    LET hi == Len(b) - (i - 1) * LimbBits
        lo == IF hi - LimbBits + 1 < 1 THEN 1 ELSE hi - LimbBits + 1
    IN NatOfBits(SubSeq(b, lo, hi))

RECURSIVE BitsOfLimbs(_, _)
BitsOfLimbs(l, i) ==
    IF i = 0 THEN <<>> ELSE BitsFixed(l[i], LimbBits) \o BitsOfLimbs(l, i - 1)

\* int -> float64 (exact for the integers of the model)
FromInt(n) == Norm(BitsOfNat(n), Len(BitsOfNat(n)) - 1)

\* b + 1 on bit sequences
IncBits(b) ==
    IF \A i \in 1..Len(b) : b[i] = 1 THEN <<1>> \o Zeros(Len(b))
    ELSE LET j == MaxOf({i \in 1..Len(b) : b[i] = 0})
         IN [i \in 1..Len(b) |-> IF i < j THEN b[i] ELSE IF i = j THEN 1 ELSE 0]

\* round to nearest, ties to even, to Precision significant bits
Round53(x) ==
    IF ~IsFinite(x) \/ Len(x.m) <= Precision THEN x
    ELSE LET head == SubSeq(x.m, 1, Precision)
             roundBit == x.m[Precision + 1]
             sticky == Len(x.m) > Precision + 1
             up == roundBit = 1 /\ (sticky \/ head[Precision] = 1)
             r == IF up THEN IncBits(head) ELSE head
         IN Norm(r, x.e + (Len(r) - Precision))

\* limbs of (the number with limbs i.. of b) * k + c
RECURSIVE MulLimbs(_, _, _, _)
MulLimbs(b, k, i, c) ==
    IF i > NumLimbs(b) THEN <<>>
    ELSE LET t == Limb(b, i) * k + c
         IN <<t % 2^LimbBits>> \o MulLimbs(b, k, i + 1, t \div 2^LimbBits)

RECURSIVE MulCarry(_, _, _, _)
MulCarry(b, k, i, c) ==
    IF i > NumLimbs(b) THEN c
    ELSE MulCarry(b, k, i + 1, (Limb(b, i) * k + c) \div 2^LimbBits)

\* bits of b * k, b a bit sequence, k a natural below 2^20
MulBits(b, k) ==
    LET l == MulLimbs(b, k, 1, 0)
    IN BitsOfNat(MulCarry(b, k, 1, 0)) \o BitsOfLimbs(l, Len(l))

\* the exact product of a finite number and a natural
ExactMulNat(x, k) ==
    LET b == MulBits(x.m, k)
    IN Norm(b, x.e - Len(x.m) + Len(b))

\* float64 * integer-valued float64
FMulNat(x, k) ==
    IF x.k = "nan" THEN NaN
    ELSE IF x.k = "inf" THEN (IF k = 0 THEN NaN ELSE Inf)
    ELSE Round53(ExactMulNat(x, k))

\* float64 / 2^n (exact)
FDivPow2(x, n) ==
    IF IsFinite(x) /\ x.m # <<>> THEN [x EXCEPT !.e = x.e - n] ELSE x

\* floor(log2(c / p)) for naturals c, p > 0
RECURSIVE Lg(_, _)
Lg(c, p) ==
    IF c >= p THEN (IF c >= 2 * p THEN 1 + Lg(c, 2 * p) ELSE 0)
    ELSE Lg(2 * c, p) - 1

\* the bits after the binary point of r / den (r < den): n limbs of them,
\* then one more bit when the division has a remainder
RECURSIVE QuotBits(_, _, _)
QuotBits(r, den, n) ==
    IF n = 0 THEN (IF r > 0 THEN <<1>> ELSE <<>>)
    ELSE BitsFixed((r * 2^LimbBits) \div den, LimbBits)
         \o QuotBits((r * 2^LimbBits) % den, den, n - 1)

\* int64 / int64 as pandas' true division: a float64, inf or nan on zero
FDivInt(c, p) ==
    IF p = 0 THEN (IF c = 0 THEN NaN ELSE Inf)
    ELSE IF c = 0 THEN Zero
    ELSE LET e == Lg(c, p)
             num == IF e >= 0 THEN c ELSE c * 2^(0 - e)
             den == IF e >= 0 THEN p * 2^e ELSE p
         IN Round53(Norm(<<1>> \o QuotBits(num - den, den,
                                           Precision \div LimbBits + 1), e))

\* x < y as IEEE comparison (false when either is nan)
LexLess(a, b) ==
    LET n == IF Len(a) > Len(b) THEN Len(a) ELSE Len(b)
        pa == a \o Zeros(n - Len(a))
        pb == b \o Zeros(n - Len(b))
        D == {i \in 1..n : pa[i] # pb[i]}
    IN D # {} /\ pa[MinOf(D)] < pb[MinOf(D)]

Less(x, y) ==
    IF x.k = "nan" \/ y.k = "nan" THEN FALSE
    ELSE IF x.k = "inf" THEN FALSE
    ELSE IF y.k = "inf" THEN TRUE
    ELSE IF y.m = <<>> THEN FALSE
    ELSE IF x.m = <<>> THEN TRUE
    ELSE IF x.e # y.e THEN x.e < y.e
    ELSE LexLess(x.m, y.m)

LessEq(x, y) == Less(x, y) \/ (x = y /\ x.k # "nan")

\* limbs of a + b + c from limb i on (a, b of one length)
RECURSIVE AddLimbs(_, _, _, _)
AddLimbs(a, b, i, c) ==
    IF i > NumLimbs(a) THEN <<c>>
    ELSE LET t == Limb(a, i) + Limb(b, i) + c
         IN <<t % 2^LimbBits>> \o AddLimbs(a, b, i + 1, t \div 2^LimbBits)

\* the exact sum of two finite numbers
ExactAdd(x, y) ==
    IF x.m = <<>> THEN y
    ELSE IF y.m = <<>> THEN x
    ELSE LET lx == x.e - Len(x.m) + 1
             ly == y.e - Len(y.m) + 1
             lo == IF lx < ly THEN lx ELSE ly
             hi == IF x.e > y.e THEN x.e ELSE y.e
             a == Zeros(hi - x.e) \o x.m \o Zeros(lx - lo)
             b == Zeros(hi - y.e) \o y.m \o Zeros(ly - lo)
             l == AddLimbs(a, b, 1, 0)
             s == BitsOfLimbs(l, Len(l))
         IN Norm(s, lo + Len(s) - 1)

\* np.round(x, 0) then int(): round half to even, x finite
RoundHalfEven(x) ==
    IF x.m = <<>> \/ x.e < -1 THEN 0
    ELSE LET nInt == x.e + 1
             padded == x.m \o Zeros(nInt - Len(x.m))
             whole == NatOfBits(SubSeq(padded, 1, nInt))
             frac == SubSeq(x.m, nInt + 1, Len(x.m))
         IN IF frac = <<>> \/ frac[1] = 0 THEN whole
            ELSE IF frac = <<1>> THEN (IF whole % 2 = 0 THEN whole ELSE whole + 1)
            ELSE whole + 1

\* int64 column / int64 column: the numerator is an integer-valued number
FDiv(x, p) == FDivInt(RoundHalfEven(x), p)

\* digits counted as floor(log10) + 1 with 0 mapped to no digit at all
RECURSIVE NumDigitsLog(_)
NumDigitsLog(n) ==
    IF n = 0 THEN 0 ELSE IF n < 10 THEN 1 ELSE 1 + NumDigitsLog(n \div 10)

\* len(str(n)) of line 49
RECURSIVE NumDigits(_)
NumDigits(n) == IF n < 10 THEN 1 ELSE 1 + NumDigits(n \div 10)

(***************************************************************************)
(* The input files and the selections                                      *)
(***************************************************************************)

\* largest count of one subcategory in one municipality
MaxCount == 1

\* the municipalities of the geojson file (row order), their names
Gemeentenamen == <<"Aa en Hunze", "Zwolle">>

\* the subcategory columns of the geojson file
Subcategories == {"kerk", "kapel", "molen"}

\* populations of the municipalities: every municipality has inhabitants
Populations == {7, 10400, 100000}

\* populations, a municipality without inhabitants included
PopulationsOrZero == Populations \cup {0}

\* the top-level categories in alphabetical order (np.sort)
Alphabetical == <<"Molens", "Religieuze gebouwen">>

\* monument_category_column_mapping.csv: one row per subcategory
MappingFiles ==
    { << [hoofdcategorie |-> "Religieuze gebouwen", column_mapping |-> "kerk"],
         [hoofdcategorie |-> "Molens", column_mapping |-> "molen"],
         [hoofdcategorie |-> "Religieuze gebouwen", column_mapping |-> "kapel"] >> }

Functions == <<"totaal aantal", "aantal per 100.000 inwoners">>

Classifications == <<"gelijke intervals", "machten van 10">>

\* the per-100.000 factor of line 44
Per100000 == 100000

\* np.linspace(..., 5)
NumBoundaries == 5

Derived == "aantal_monumenten_binnen_categorie"

\* municipal_monument_count.geojson with populations drawn from pops
GeojsonFiles(pops) ==
    { [i \in DOMAIN Gemeentenamen |->
          [s \in Subcategories |-> counts[i][s]]
          @@ ("gemeentenaam" :> Gemeentenamen[i])
          @@ ("TotaleBevolking_1" :> pop[i])] :
      counts \in [DOMAIN Gemeentenamen -> [Subcategories -> 0..MaxCount]],
      pop \in [DOMAIN Gemeentenamen -> pops] }

VARIABLES geojson_file, mapping_csv, monuments_df, column_mapping_df,
          categorie, function, label_classification, scale, error

vars == <<geojson_file, mapping_csv, monuments_df, column_mapping_df,
          categorie, function, label_classification, scale, error>>

(***************************************************************************)
(* The script, line by line                                                *)
(***************************************************************************)

\* line 21: np.sort(column_mapping_df['hoofdcategorie'].unique())
main_categories(mapping) ==
    SelectSeq(Alphabetical,
              LAMBDA c : \E i \in DOMAIN mapping : mapping[i].hoofdcategorie = c)

\* every column of the mapping table, whatever its category
selected_columns_all(mapping, cat) ==
    [j \in DOMAIN mapping |-> mapping[j].column_mapping]

\* line 39: the column_mapping entries of the rows of the chosen category
RECURSIVE selected_columns(_, _)
selected_columns(mapping, cat) ==
    IF mapping = <<>> THEN <<>>
    ELSE (IF Head(mapping).hoofdcategorie = cat
          THEN <<Head(mapping).column_mapping>> ELSE <<>>)
         \o selected_columns(Tail(mapping), cat)

\* monuments_df[cols].sum(axis = 1) for one row
RECURSIVE RowSum(_, _)
RowSum(row, cols) ==
    IF cols = <<>> THEN 0 ELSE row[Head(cols)] + RowSum(row, Tail(cols))

\* the frame cut down to the key, the population and the derived column
SumColumnsOnly(df, mapping, cat) ==
    [i \in DOMAIN df |->
        [gemeentenaam |-> df[i].gemeentenaam,
         TotaleBevolking_1 |-> df[i].TotaleBevolking_1,
         aantal_monumenten_binnen_categorie |->
             FromInt(RowSum(df[i], selected_columns(mapping, cat)))]]

\* line 41
SumColumns(df, mapping, cat) ==
    [i \in DOMAIN df |->
        (Derived :> FromInt(RowSum(df[i], selected_columns(mapping, cat))))
        @@ df[i]]

\* every municipality divided by the population of the first row
NormalizeByFirst(df) ==
    [i \in DOMAIN df |->
        [df[i] EXCEPT ![Derived] =
            FMulNat(FDiv(df[i][Derived], df[1].TotaleBevolking_1), Per100000)]]

\* line 44
Normalize(df) ==
    [i \in DOMAIN df |->
        [df[i] EXCEPT ![Derived] =
            FMulNat(FDiv(df[i][Derived], df[i].TotaleBevolking_1), Per100000)]]

\* lines 41-44
Aggregate(df, mapping, cat, fn) ==
    IF fn = "aantal per 100.000 inwoners"
    THEN Normalize(SumColumns(df, mapping, cat))
    ELSE SumColumns(df, mapping, cat)

\* monuments_df['aantal_monumenten_binnen_categorie'].max(): NaN is skipped
ColumnMax(df) ==
    LET vals == {df[i][Derived] : i \in DOMAIN df} \ {NaN}
    IN IF vals = {} THEN NaN
       ELSE CHOOSE v \in vals : \A w \in vals : LessEq(w, v)

\* np.arange(1, 6) * step: the boundaries start one step too high
linspace_from_step(stop) ==
    [i \in 1..NumBoundaries |-> FMulNat(FDivPow2(stop, 2), i)]

\* line 47: np.linspace(0, stop, 5)
linspace(stop) ==
    LET div == NumBoundaries - 1
        step == FDivPow2(stop, 2)
    IN [i \in 1..NumBoundaries |->
          IF i = NumBoundaries THEN stop
          ELSE IF step = Zero THEN Zero
          ELSE FMulNat(step, i - 1)]

\* line 49: the exception int() raises, or "none"
IntError(mx) ==
    IF mx.k = "inf" THEN "OverflowError"
    ELSE IF mx.k = "nan" THEN "ValueError"
    ELSE "none"

\* int(max) without np.round: the fraction is cut off
n_digits_truncated(mx) ==
    NumDigits(IF mx.m = <<>> \/ mx.e < 0 THEN 0
              ELSE NatOfBits(SubSeq(mx.m \o Zeros(mx.e + 1 - Len(mx.m)), 1, mx.e + 1)))

\* line 49
n_digits(mx) == NumDigits(RoundHalfEven(mx))

\* range(n_digits): one power of ten short
PowerScaleShort(n) == <<Zero>> \o [i \in 1..n |-> FromInt(10^(i - 1))]

\* lines 50-51
PowerScale(n) == <<Zero>> \o [i \in 1..(n + 1) |-> FromInt(10^(i - 1))]

\* lines 46-51: the scale, <<>> when line 49 raised
BuildScale(df, cls) ==
    IF cls = "gelijke intervals" THEN linspace(ColumnMax(df))
    ELSE IF IntError(ColumnMax(df)) # "none" THEN <<>>
    ELSE PowerScale(n_digits(ColumnMax(df)))

BuildError(df, cls) ==
    IF cls = "gelijke intervals" THEN "none" ELSE IntError(ColumnMax(df))

\* a run that keeps the scale while the classification stays the same
RunKeepScale(cat, fn, cls) ==
    /\ column_mapping_df' = mapping_csv
    /\ monuments_df' = Aggregate(geojson_file, mapping_csv, cat, fn)
    /\ scale' = IF cls = label_classification THEN scale
                ELSE BuildScale(monuments_df', cls)
    /\ error' = BuildError(monuments_df', cls)
    /\ categorie' = cat
    /\ function' = fn
    /\ label_classification' = cls
    /\ UNCHANGED <<geojson_file, mapping_csv>>

\* one execution of the script with the given selections
Run(cat, fn, cls) ==
    /\ column_mapping_df' = mapping_csv
    /\ monuments_df' = Aggregate(geojson_file, mapping_csv, cat, fn)
    /\ scale' = BuildScale(monuments_df', cls)
    /\ error' = BuildError(monuments_df', cls)
    /\ categorie' = cat
    /\ function' = fn
    /\ label_classification' = cls
    /\ UNCHANGED <<geojson_file, mapping_csv>>

\* the first execution: every radio button shows its first option
FirstRun(files) ==
    /\ geojson_file \in files
    /\ mapping_csv \in MappingFiles
    /\ column_mapping_df = mapping_csv
    /\ categorie = main_categories(mapping_csv)[1]
    /\ function = Functions[1]
    /\ label_classification = Classifications[1]
    /\ monuments_df = Aggregate(geojson_file, mapping_csv, categorie, function)
    /\ scale = BuildScale(monuments_df, label_classification)
    /\ error = BuildError(monuments_df, label_classification)

Init == FirstRun(GeojsonFiles(Populations))

InitZeroPop == FirstRun(GeojsonFiles(PopulationsOrZero))

\* lines 24-26: another category is chosen, the script runs again
SelectCategorie ==
    \E c \in {main_categories(column_mapping_df)[i] :
                 i \in DOMAIN main_categories(column_mapping_df)} :
        /\ c # categorie
        /\ Run(c, function, label_classification)

\* lines 29-31
SelectFunction ==
    \E f \in {Functions[i] : i \in DOMAIN Functions} :
        /\ f # function
        /\ Run(categorie, f, label_classification)

\* lines 34-36
SelectClassification ==
    \E l \in {Classifications[i] : i \in DOMAIN Classifications} :
        /\ l # label_classification
        /\ Run(categorie, function, l)

Next == SelectCategorie \/ SelectFunction \/ SelectClassification

Spec == Init /\ [][Next]_vars

SpecZeroPop == InitZeroPop /\ [][Next]_vars

(***************************************************************************)
(* Vocabulary of the properties                                            *)
(***************************************************************************)

Rows == DOMAIN geojson_file

\* the derived metric of municipality i as rendered
Metric(i) == monuments_df[i][Derived]

\* the subcategory columns the mapping table maps to category cat
MappedTo(cat) ==
    {s \in Subcategories :
        \E j \in DOMAIN mapping_csv :
            mapping_csv[j] = [hoofdcategorie |-> cat, column_mapping |-> s]}

RECURSIVE SetSum(_, _)
SetSum(row, S) ==
    IF S = {} THEN 0
    ELSE LET s == CHOOSE t \in S : TRUE IN row[s] + SetSum(row, S \ {s})

\* the count of municipality i in the chosen category, from the file
CategoryCount(i) == SetSum(geojson_file[i], MappedTo(categorie))

Population(i) == geojson_file[i].TotaleBevolking_1

\* mx is the maximum of the derived metric over all municipalities
IsMaximum(mx) ==
    /\ \E i \in Rows : Metric(i) = mx
    /\ \A i \in Rows : LessEq(Metric(i), mx)

Maxima == {Metric(i) : i \in Rows}

Ints(s) == [i \in DOMAIN s |-> FromInt(s[i])]

\* C1: in 'totaal aantal' mode the derived metric of every municipality is
\* the sum of its counts in exactly the columns mapped to the chosen category
C1_CategoryAggregation ==
    function = "totaal aantal" =>
        \A i \in Rows : Metric(i) = FromInt(CategoryCount(i))

\* a category of two columns is chosen and a municipality has monuments in
\* both of them and in a column of another category
C1_Witness ==
    /\ function = "totaal aantal"
    /\ categorie = "Religieuze gebouwen"
    /\ Cardinality(MappedTo(categorie)) = 2
    /\ \E i \in Rows : \A s \in Subcategories : geojson_file[i][s] = 1

\* C2: in rate mode the derived metric is the category count divided by the
\* municipality's own population, times 100,000, in binary64 arithmetic
\* (count 5 and population 100,000 give exactly 5); in 'totaal aantal' mode
\* it is the plain sum, whatever the population
C2_RateNormalization ==
    /\ function = "aantal per 100.000 inwoners" =>
          \A i \in Rows :
             /\ Metric(i) = FMulNat(FDivInt(CategoryCount(i), Population(i)),
                                    Per100000)
             /\ RoundHalfEven(Metric(i)) - (CategoryCount(i) * Per100000) \div Population(i)
                   \in {0, 1}
    /\ function = "totaal aantal" =>
          \A i \in Rows : Metric(i) = FromInt(CategoryCount(i))
    /\ Normalize(<<[TotaleBevolking_1 |-> 100000,
                    aantal_monumenten_binnen_categorie |-> FromInt(5)]>>)[1][Derived]
          = FromInt(5)

\* rate mode, two municipalities of different population with monuments
C2_Witness ==
    /\ function = "aantal per 100.000 inwoners"
    /\ \E i, j \in Rows :
          /\ Population(i) # Population(j)
          /\ CategoryCount(i) > 0
          /\ CategoryCount(j) > 0
          /\ Metric(i) # FromInt(CategoryCount(i))

\* the original statement of C3: five boundaries from 0 to the maximum, each
\* exactly max/4 above the one before
C3_Original ==
    label_classification = "gelijke intervals" =>
        \E mx \in Maxima :
            /\ IsMaximum(mx)
            /\ Len(scale) = 5
            /\ scale[1] = Zero
            /\ scale[5] = mx
            /\ \A i \in 1..4 : ExactAdd(scale[i], FDivPow2(mx, 2)) = scale[i + 1]

\* C3 (amended): five boundaries, the first 0, the last the maximum, the
\* second max/4, the third max/2, the fourth 3*max/4 rounded to binary64;
\* all gaps are exactly max/4 in 'totaal aantal' mode, and maximum 40 gives
\* [0, 10, 20, 30, 40]
C3_EvenIntervals ==
    /\ label_classification = "gelijke intervals" =>
          \E mx \in Maxima :
             LET step == FDivPow2(mx, 2) IN
             /\ IsMaximum(mx)
             /\ ExactMulNat(step, 4) = mx
             /\ Len(scale) = 5
             /\ scale[1] = Zero
             /\ scale[5] = mx
             /\ scale[2] = step
             /\ scale[3] = ExactAdd(step, step)
             /\ scale[4] = Round53(ExactAdd(scale[3], step))
             /\ function = "totaal aantal" =>
                   \A i \in 1..4 : ExactAdd(scale[i], step) = scale[i + 1]
    /\ linspace(FromInt(40)) = Ints(<<0, 10, 20, 30, 40>>)

\* even intervals over a rate whose three quarters is no binary64 value
C3_Witness ==
    /\ label_classification = "gelijke intervals"
    /\ function = "aantal per 100.000 inwoners"
    /\ Len(scale) = 5
    /\ scale[5] # Zero
    /\ ExactAdd(scale[3], scale[2]) # scale[4]

\* C4: in 'machten van 10' mode the scale is [0, 10^0, ..., 10^d], d the
\* number of decimal digits of the maximum rounded to an integer; maximum
\* 250 gives [0, 1, 10, 100, 1000]
C4_PowersOfTen ==
    /\ label_classification = "machten van 10" =>
          \E mx \in Maxima : \E d \in 1..8 :
             /\ IsMaximum(mx)
             /\ d = 1 \/ LessEq(FromInt(2 * 10^(d - 1) - 1), ExactMulNat(mx, 2))
             /\ Less(ExactMulNat(mx, 2), FromInt(2 * 10^d - 1))
             /\ Len(scale) = d + 2
             /\ scale[1] = Zero
             /\ \A i \in 0..d : scale[i + 2] = FromInt(10^i)
    /\ PowerScale(n_digits(FromInt(250))) = Ints(<<0, 1, 10, 100, 1000>>)

\* powers of ten over a maximum that rounding lifts to the next digit count
C4_Witness ==
    /\ label_classification = "machten van 10"
    /\ \E mx \in Maxima :
          /\ IsMaximum(mx)
          /\ Less(FromInt(9), mx)
          /\ Less(mx, FromInt(10))
    /\ Len(scale) = 4

\* C5: the scale handed to the choropleth starts at 0 and every boundary is
\* greater than the one before, also when the maximum is 0
C5_StrictlyAscending ==
    error = "none" =>
        /\ scale[1] = Zero
        /\ \A i \in 1..(Len(scale) - 1) : Less(scale[i], scale[i + 1])

\* C6: with a municipality of population 0 the run from aggregation to the
\* scale raises no error and produces a scale
C6_NoCrash ==
    /\ error = "none"
    /\ scale # <<>>

\* the original statement of C7: with maximum 0 the powers-of-ten branch has
\* no well-defined digit count and so no scale
C7_Original ==
    (label_classification = "machten van 10" /\ IsMaximum(Zero)) =>
        (error # "none" \/ scale = <<>>)

\* C7 (amended): with maximum 0 the powers-of-ten branch counts the digits
\* of the string "0", which is 1, and the scale is [0, 1, 10]
C7_ZeroMaximum ==
    (label_classification = "machten van 10" /\ IsMaximum(Zero)) =>
        /\ error = "none"
        /\ scale = Ints(<<0, 1, 10>>)

C7_Witness ==
    /\ label_classification = "machten van 10"
    /\ IsMaximum(Zero)
    /\ \E i \in Rows : \E s \in Subcategories : geojson_file[i][s] > 0

\* what a single run with the current selections renders
FreshMetric(i) ==
    IF function = "aantal per 100.000 inwoners"
    THEN FMulNat(FDivInt(CategoryCount(i), Population(i)), Per100000)
    ELSE FromInt(CategoryCount(i))

FreshScale ==
    LET mx == CHOOSE v \in {FreshMetric(i) : i \in Rows} :
                 \A i \in Rows : LessEq(FreshMetric(i), v)
    IN IF label_classification = "gelijke intervals" THEN linspace(mx)
       ELSE PowerScale(n_digits(mx))

\* C8: after any sequence of selection changes the rendered metric and scale
\* are those of a single run with the current selections, and a step changes
\* exactly one of the three selections
C8_FullRecomputation ==
    /\ [](/\ \A i \in Rows : Metric(i) = FreshMetric(i)
          /\ scale = FreshScale)
    /\ [][Cardinality({k \in 1..3 :
              <<categorie, function, label_classification>>[k]
              # <<categorie', function', label_classification'>>[k]}) = 1]_vars

\* all three selections differ from their defaults, so at least three
\* earlier renderings (another category, the raw totals, the even-interval
\* scale) came before this one
C8_Witness ==
    /\ categorie = "Religieuze gebouwen"
    /\ function = "aantal per 100.000 inwoners"
    /\ label_classification = "machten van 10"
    /\ \E i \in Rows : Population(i) = 7 /\ CategoryCount(i) = 2
    /\ \E i \in Rows : geojson_file[i]["molen"] # CategoryCount(i)

\* C9: recomputation leaves the loaded data as read: only the derived column
\* is added to the municipality records, and the mapping table is unchanged
C9_LoadedDataReadOnly ==
    /\ DOMAIN monuments_df = DOMAIN geojson_file
    /\ \A i \in Rows :
          /\ DOMAIN monuments_df[i] = DOMAIN geojson_file[i] \cup {Derived}
          /\ \A f \in DOMAIN geojson_file[i] : monuments_df[i][f] = geojson_file[i][f]
    /\ column_mapping_df = mapping_csv

C9_Witness ==
    /\ function = "aantal per 100.000 inwoners"
    /\ categorie = "Religieuze gebouwen"
    /\ \E i \in Rows : Metric(i) # Zero /\ Metric(i) # FromInt(CategoryCount(i))

\* C10: every municipality's metric lies between the first and the last
\* boundary; the top power of ten is above the maximum, the top of the even
\* intervals is the maximum
C10_ScaleCoversData ==
    /\ \A i \in Rows :
          /\ LessEq(scale[1], Metric(i))
          /\ LessEq(Metric(i), scale[Len(scale)])
    /\ label_classification = "machten van 10" =>
          \A i \in Rows : Less(Metric(i), scale[Len(scale)])
    /\ label_classification = "gelijke intervals" =>
          IsMaximum(scale[Len(scale)])

C10_Witness ==
    /\ label_classification = "machten van 10"
    /\ function = "aantal per 100.000 inwoners"
    /\ \E i \in Rows : Less(FromInt(10000), Metric(i))
    /\ \E i \in Rows : Metric(i) = Zero
====
